---- MODULE Spec2Model ----
(***************************************************************************)
(* The copy-on-write B+tree engine of src/src/btree.rs as a state machine. *)
(*                                                                         *)
(* The tree file is the sequence `pages`; the Offset of a page is its      *)
(* index in that sequence (byte offset = 4096 * (index - 1)), and the      *)
(* Option<Offset> parent link is 0 for None.  Every pager write and every  *)
(* WAL write of an operation is one step of the machine, so the states     *)
(* between two steps are the intermediate points of the operation.         *)
(* usize indices of the code are 0-based; a TLA+ sequence is 1-based, so   *)
(* s[i + 1] reads the element the code calls s[i].                         *)
(***************************************************************************)
EXTENDS Integers, Sequences, FiniteSets, TLC

\* ------------------------------------------------------------------ bounds

\* b parameters handed to BTreeBuilder::b_parameter (the tests use 2).
BValues == {2, 3}
\* The bulk load inserts the keys 1, 2, ..., MaxLoad in ascending order.
MaxLoad == 14
\* After the load, at most MaxOps further operations are started ...
MaxOps == 2
\* ... with keys drawn from 0 .. MaxFreeKey.
MaxFreeKey == 3
\* At most MaxWalFail calls of Wal::set_root fail.
MaxWalFail == 1

FreeKeys == 0 .. MaxFreeKey
LoadKeys == 1 .. MaxLoad
Keys == FreeKeys \cup LoadKeys

\* --------------------------------------------------------------- sequences

\* Vec::remove(i)
RemoveAt(s, i) == SubSeq(s, 1, i) \o SubSeq(s, i + 2, Len(s))

\* Vec::insert(i, x)
InsertAt(s, i, x) == SubSeq(s, 1, i) \o <<x>> \o SubSeq(s, i + 1, Len(s))

\* Vec::split_off(at): the pair <<kept, moved>>
SplitOff(s, at) == <<SubSeq(s, 1, at), SubSeq(s, at + 1, Len(s))>>

PairKeys(pairs) == [i \in 1 .. Len(pairs) |-> pairs[i][1]]

\* ------------------------------------------------------------------- nodes

\* Node::new(node_type, is_root, parent_offset)
Leaf(pairs, isRoot, parent) ==
    [leaf |-> TRUE, is_root |-> isRoot, parent |-> parent,
     pairs |-> pairs, children |-> <<>>, keys |-> <<>>]

Internal(children, keys, isRoot, parent) ==
    [leaf |-> FALSE, is_root |-> isRoot, parent |-> parent,
     pairs |-> <<>>, children |-> children, keys |-> keys]

NoNode == Leaf(<<>>, FALSE, 0)

\* slice::binary_search over a sequence of keys: the loop of the standard
\* library, which halves the range without leaving early on an equal
\* element.  The result is [ok, idx]: Ok(idx) or Err(idx).
RECURSIVE BinarySearchBase(_, _, _, _)
BinarySearchBase(s, k, base, size) ==
    IF size > 1
    THEN LET half == size \div 2
             mid  == base + half
         IN  BinarySearchBase(s, k, IF s[mid + 1] > k THEN base ELSE mid,
                              size - half)
    ELSE base

BinarySearch(s, k) ==
    IF Len(s) = 0
    THEN [ok |-> FALSE, idx |-> 0]
    ELSE LET base == BinarySearchBase(s, k, 0, Len(s))
         IN  IF s[base + 1] = k
             THEN [ok |-> TRUE, idx |-> base]
             ELSE [ok |-> FALSE,
                   idx |-> base + (IF s[base + 1] < k THEN 1 ELSE 0)]

\* .unwrap_or_else(|x| x)
InsertionPoint(s, k) == BinarySearch(s, k).idx

\* Node::split(b): <<self after the split, median, sibling>>
Split(n, bp) ==
    IF n.leaf
    THEN LET parts == SplitOff(n.pairs, bp)
         IN  <<[n EXCEPT !.pairs = parts[1], !.is_root = FALSE],
               parts[2][1][1],
               Leaf(parts[2], FALSE, n.parent)>>
    ELSE LET kparts == SplitOff(n.keys, bp - 1)
             cparts == SplitOff(n.children, bp)
         IN  <<[n EXCEPT !.keys = kparts[1], !.children = cparts[1],
                         !.is_root = FALSE],
               kparts[2][1],
               Internal(cparts[2], RemoveAt(kparts[2], 0), FALSE, n.parent)>>

\* A faulty fullness test that applies the key limit of internal nodes to
\* leaves too: the root-split timing (C13) rejects it.
IsNodeFullKeyLimit(n, bp) ==
    IF n.leaf THEN Len(n.pairs) >= 2 * bp - 1 ELSE Len(n.keys) = 2 * bp - 1

\* BTree::is_node_full
IsNodeFull(n, bp) ==
    IF n.leaf THEN Len(n.pairs) = 2 * bp ELSE Len(n.keys) = 2 * bp - 1

\* BTree::is_node_underflow
IsNodeUnderflow(n, bp) ==
    IF n.leaf
    THEN Len(n.pairs) < bp - 1 /\ ~n.is_root
    ELSE Len(n.keys) < bp - 1 /\ ~n.is_root

\* BTree::merge: first's elements, then second's.  [ok, node]
Merge(first, second) ==
    IF first.leaf
    THEN IF second.leaf
         THEN [ok |-> TRUE,
               node |-> Leaf(first.pairs \o second.pairs,
                             first.is_root, first.parent)]
         ELSE [ok |-> FALSE, node |-> NoNode]
    ELSE IF ~second.leaf
         THEN [ok |-> TRUE,
               node |-> Internal(first.children \o second.children,
                                 first.keys \o second.keys,
                                 first.is_root, first.parent)]
         ELSE [ok |-> FALSE, node |-> NoNode]

\* ------------------------------------------------------------------- pager

\* Pager::write_page appends; the offset it returns is the new length.
WritePage(file, n) == Append(file, n)

\* Pager::write_page_at_offset
WritePageAtOffset(file, off, n) == [file EXCEPT ![off] = n]

\* BTree::search_node on the file `file`, from the page at `off`.
\* <<"Ok", key, value>>, <<"KeyNotFound">> or <<"UnexpectedError">>
RECURSIVE SearchNode(_, _, _)
SearchNode(file, off, k) ==
    LET n == file[off] IN
    IF n.leaf
    THEN LET r == BinarySearch(PairKeys(n.pairs), k)
         IN  IF r.ok THEN <<"Ok", n.pairs[r.idx + 1][1], n.pairs[r.idx + 1][2]>>
                     ELSE <<"KeyNotFound">>
    ELSE LET idx == InsertionPoint(n.keys, k)
         IN  IF idx < Len(n.children)
             THEN SearchNode(file, n.children[idx + 1], k)
             ELSE <<"UnexpectedError">>

\* ------------------------------------------------------------------- state

VARIABLES
    b,         \* BTreeBuilder.b, BTree.b
    path,      \* BTreeBuilder.path
    pages,     \* the tree file behind BTree.pager
    walRoot,   \* the root offset stored in BTree.wal
    pc,        \* where the running operation stands; "idle" between operations
    fr,        \* the local variables of the running operation
    nLoad,     \* environment: load inserts started
    nFree,     \* environment: free operations started
    walFails,  \* environment: failed Wal::set_root calls
    abs,       \* history: key -> value of its last Ok insert, -1 once deleted, 0 never
    done,      \* history: the last three completed operations
    setRoots,  \* history: successful set_root calls of the current operation
    start,     \* history: root offset and file when the current operation began
    ow,        \* history: offsets the current operation handed to write_page_at_offset
    plain      \* history: since build, only inserts of keys not in the tree

progVars  == <<b, path, pages, walRoot, pc, fr>>
envVars   == <<nLoad, nFree, walFails>>
histVars  == <<abs, done, setRoots, start, ow, plain>>
vars      == <<b, path, pages, walRoot, pc, fr, nLoad, nFree, walFails,
               abs, done, setRoots, start, ow, plain>>

IdleFrame ==
    [kind |-> "none", key |-> 0, value |-> 0, root |-> 0,
     node |-> NoNode, off |-> 0, child |-> NoNode, childOff |-> 0,
     sibling |-> NoNode, sibOff |-> 0, median |-> 0, idx |-> 0,
     parent |-> NoNode, parentOff |-> 0, mergedOff |-> 0]

\* BTreeBuilder::build on an empty directory: one empty root leaf, and the
\* WAL pointing at it.
Init ==
    /\ b \in BValues
    /\ path = "/tmp/db"
    /\ pages = <<Leaf(<<>>, TRUE, 0)>>
    /\ walRoot = 1
    /\ pc = "idle"
    /\ fr = IdleFrame
    /\ nLoad = 0 /\ nFree = 0 /\ walFails = 0
    /\ abs = [k \in Keys |-> 0]
    /\ done = <<>>
    /\ setRoots = 0
    /\ start = [root |-> 1, pages |-> <<Leaf(<<>>, TRUE, 0)>>]
    /\ ow = {}
    /\ plain = TRUE

\* The value handed to the next insert: the number of the operation.
NextValue == nLoad + nFree + 1

\* Bookkeeping at the first step of an operation.
Begin ==
    /\ start' = [root |-> walRoot, pages |-> pages]
    /\ setRoots' = 0
    /\ ow' = {}

\* The operation returns `res` to its caller ("Panic": the process aborts).
Finish(res) ==
    /\ pc' = IF res = "Panic" THEN "aborted" ELSE "idle"
    /\ fr' = IdleFrame
    /\ done' = LET d == Append(done, [kind |-> fr.kind, key |-> fr.key,
                                      value |-> fr.value, result |-> res])
               IN  IF Len(d) > 3 THEN Tail(d) ELSE d
    /\ abs' = IF res = "Ok"
              THEN [abs EXCEPT ![fr.key] =
                        IF fr.kind = "insert" THEN fr.value ELSE -1]
              ELSE abs

\* Wal::set_root either stores the offset or fails without storing it; the
\* bulk load runs without failures.
SetRootOutcomes ==
    IF nFree > 0 /\ walFails < MaxWalFail THEN {TRUE, FALSE} ELSE {TRUE}

\* ------------------------------------------------------------------ insert

\* A faulty insert that puts a new internal root above the old root on every
\* call, full or not, and leaves the split to insert_non_full: the height
\* bound (C15) rejects it.
BeginInsertNewRootAlways(k, v) ==
    /\ pc = "idle"
    /\ Begin
    /\ plain' = (plain /\ abs[k] <= 0)
    /\ LET new_root == Internal(<<walRoot>>, <<>>, TRUE, 0)
       IN  /\ pages' = WritePage(pages, new_root)
           /\ fr' = [IdleFrame EXCEPT !.kind = "insert", !.key = k,
                                      !.value = v,
                                      !.root = Len(pages) + 1,
                                      !.off = Len(pages) + 1,
                                      !.node = new_root]
           /\ pc' = "insert_non_full"
    /\ UNCHANGED <<b, path, walRoot, walFails, abs, done>>

\* BTree::insert up to its first write_page: the placeholder of a new root
\* when the root is full, else the copy of the root.
BeginInsert(k, v) ==
    /\ pc = "idle"
    /\ Begin
    /\ plain' = (plain /\ abs[k] <= 0)
    /\ LET root == pages[walRoot]
           base == [IdleFrame EXCEPT !.kind = "insert", !.key = k, !.value = v,
                                     !.root = Len(pages) + 1,
                                     !.off = Len(pages) + 1]
       IN  IF IsNodeFull(root, b)
           THEN /\ pages' = WritePage(pages, Internal(<<>>, <<>>, TRUE, 0))
                /\ fr' = [base EXCEPT !.node = Internal(<<>>, <<>>, TRUE, 0),
                                      !.child = root]
                /\ pc' = "split_root"
           ELSE /\ pages' = WritePage(pages, root)
                /\ fr' = [base EXCEPT !.node = root]
                /\ pc' = "insert_non_full"
    /\ UNCHANGED <<b, path, walRoot, walFails, abs, done>>

\* The bulk load: insert(KeyValuePair) of the next key in ascending order.
LoadInsert ==
    /\ nFree = 0
    /\ nLoad < MaxLoad
    /\ BeginInsert(nLoad + 1, NextValue)
    /\ nLoad' = nLoad + 1
    /\ UNCHANGED nFree

\* insert(KeyValuePair) of any key of FreeKeys.
StartInsert ==
    /\ nFree < MaxOps
    /\ \E k \in FreeKeys : BeginInsert(k, NextValue)
    /\ nFree' = nFree + 1
    /\ UNCHANGED nLoad

\* insert, root full: re-parent and split the old root, append its left half.
InsertSplitRoot ==
    /\ pc = "split_root"
    /\ LET old == [fr.child EXCEPT !.parent = fr.root, !.is_root = FALSE]
           sp  == Split(old, b)
       IN  /\ pages' = WritePage(pages, sp[1])
           /\ fr' = [fr EXCEPT !.child = sp[1], !.childOff = Len(pages) + 1,
                               !.median = sp[2], !.sibling = sp[3]]
    /\ pc' = "split_root_sibling"
    /\ UNCHANGED <<b, path, walRoot>>
    /\ UNCHANGED envVars
    /\ UNCHANGED histVars

\* insert, root full: append the sibling.
InsertSplitRootSibling ==
    /\ pc = "split_root_sibling"
    /\ pages' = WritePage(pages, fr.sibling)
    /\ fr' = [fr EXCEPT !.sibOff = Len(pages) + 1]
    /\ pc' = "new_root"
    /\ UNCHANGED <<b, path, walRoot>>
    /\ UNCHANGED envVars
    /\ UNCHANGED histVars

\* insert, root full: write the new root over its placeholder.
InsertNewRoot ==
    /\ pc = "new_root"
    /\ LET nr == Internal(<<fr.childOff, fr.sibOff>>, <<fr.median>>,
                          fr.node.is_root, fr.node.parent)
       IN  /\ pages' = WritePageAtOffset(pages, fr.root, nr)
           /\ fr' = [fr EXCEPT !.node = nr, !.off = fr.root]
    /\ ow' = ow \cup {fr.root}
    /\ pc' = "insert_non_full"
    /\ UNCHANGED <<b, path, walRoot>>
    /\ UNCHANGED envVars
    /\ UNCHANGED <<abs, done, setRoots, start, plain>>

\* insert_non_full at a leaf: insert the pair at its binary-search position
\* and write the leaf at its offset.
InsertLeaf ==
    /\ pc = "insert_non_full"
    /\ fr.node.leaf
    /\ LET idx == InsertionPoint(PairKeys(fr.node.pairs), fr.key)
           n   == [fr.node EXCEPT
                      !.pairs = InsertAt(@, idx, <<fr.key, fr.value>>)]
       IN  /\ pages' = WritePageAtOffset(pages, fr.off, n)
           /\ fr' = [fr EXCEPT !.node = n]
    /\ ow' = ow \cup {fr.off}
    /\ pc' = "insert_commit"
    /\ UNCHANGED <<b, path, walRoot>>
    /\ UNCHANGED envVars
    /\ UNCHANGED <<abs, done, setRoots, start, plain>>

\* A faulty descent that stores the offset of the committed root, instead of
\* the offset of the child's copy, in the child slot of the parent: balance
\* (C22) rejects it.
InsertCopyChildLinksRoot ==
    /\ pc = "insert_non_full"
    /\ ~fr.node.leaf
    /\ LET idx == InsertionPoint(fr.node.keys, fr.key) IN
       IF idx >= Len(fr.node.children)
       THEN /\ Finish("UnexpectedError")
            /\ UNCHANGED pages
       ELSE LET child == pages[fr.node.children[idx + 1]] IN
            /\ pages' = WritePage(pages, child)
            /\ fr' = [fr EXCEPT !.idx = idx, !.child = child,
                                !.childOff = Len(pages) + 1,
                                !.node.children[idx + 1] = walRoot]
            /\ pc' = IF IsNodeFull(child, b) THEN "split_child"
                                             ELSE "write_parent"
            /\ UNCHANGED <<abs, done>>
    /\ UNCHANGED <<b, path, walRoot>>
    /\ UNCHANGED envVars
    /\ UNCHANGED <<setRoots, start, ow, plain>>

\* insert_non_full at an internal node: load the child of the key and append
\* a copy of it.
InsertCopyChild ==
    /\ pc = "insert_non_full"
    /\ ~fr.node.leaf
    /\ LET idx == InsertionPoint(fr.node.keys, fr.key) IN
       IF idx >= Len(fr.node.children)
       THEN /\ Finish("UnexpectedError")
            /\ UNCHANGED pages
       ELSE LET child == pages[fr.node.children[idx + 1]] IN
            /\ pages' = WritePage(pages, child)
            /\ fr' = [fr EXCEPT !.idx = idx, !.child = child,
                                !.childOff = Len(pages) + 1,
                                !.node.children[idx + 1] = Len(pages) + 1]
            /\ pc' = IF IsNodeFull(child, b) THEN "split_child"
                                             ELSE "write_parent"
            /\ UNCHANGED <<abs, done>>
    /\ UNCHANGED <<b, path, walRoot>>
    /\ UNCHANGED envVars
    /\ UNCHANGED <<setRoots, start, ow, plain>>

\* insert_non_full, child full: split the copy and write its left half in
\* place.
InsertSplitChild ==
    /\ pc = "split_child"
    /\ LET sp == Split(fr.child, b)
       IN  /\ pages' = WritePageAtOffset(pages, fr.childOff, sp[1])
           /\ fr' = [fr EXCEPT !.child = sp[1], !.median = sp[2],
                               !.sibling = sp[3]]
    /\ ow' = ow \cup {fr.childOff}
    /\ pc' = "split_child_sibling"
    /\ UNCHANGED <<b, path, walRoot>>
    /\ UNCHANGED envVars
    /\ UNCHANGED <<abs, done, setRoots, start, plain>>

\* insert_non_full, child full: append the sibling.
InsertSplitChildSibling ==
    /\ pc = "split_child_sibling"
    /\ pages' = WritePage(pages, fr.sibling)
    /\ fr' = [fr EXCEPT !.sibOff = Len(pages) + 1]
    /\ pc' = "write_parent_split"
    /\ UNCHANGED <<b, path, walRoot>>
    /\ UNCHANGED envVars
    /\ UNCHANGED histVars

\* insert_non_full, child full: add sibling and median to the parent, write
\* the parent, and go on in the child or the sibling.
InsertWriteParentSplit ==
    /\ pc = "write_parent_split"
    /\ LET n == [fr.node EXCEPT
                    !.children = InsertAt(@, fr.idx + 1, fr.sibOff),
                    !.keys = InsertAt(@, fr.idx, fr.median)]
       IN  /\ pages' = WritePageAtOffset(pages, fr.off, n)
           /\ fr' = IF fr.key <= fr.median
                    THEN [fr EXCEPT !.node = fr.child, !.off = fr.childOff]
                    ELSE [fr EXCEPT !.node = fr.sibling, !.off = fr.sibOff]
    /\ ow' = ow \cup {fr.off}
    /\ pc' = "insert_non_full"
    /\ UNCHANGED <<b, path, walRoot>>
    /\ UNCHANGED envVars
    /\ UNCHANGED <<abs, done, setRoots, start, plain>>

\* insert_non_full, child not full: write the parent and go on in the child.
InsertWriteParent ==
    /\ pc = "write_parent"
    /\ pages' = WritePageAtOffset(pages, fr.off, fr.node)
    /\ fr' = [fr EXCEPT !.node = fr.child, !.off = fr.childOff]
    /\ ow' = ow \cup {fr.off}
    /\ pc' = "insert_non_full"
    /\ UNCHANGED <<b, path, walRoot>>
    /\ UNCHANGED envVars
    /\ UNCHANGED <<abs, done, setRoots, start, plain>>

\* A faulty commit that stores the offset of the node written last instead of
\* the offset of the new root: atomic publication (C5) rejects it.
InsertCommitNodeOffset ==
    /\ pc = "insert_commit"
    /\ \E ok \in SetRootOutcomes :
          IF ok
          THEN /\ walRoot' = fr.off
               /\ setRoots' = setRoots + 1
               /\ Finish("Ok")
               /\ UNCHANGED walFails
          ELSE /\ walFails' = walFails + 1
               /\ Finish("IoError")
               /\ UNCHANGED <<walRoot, setRoots>>
    /\ UNCHANGED <<b, path, pages, nLoad, nFree, start, ow, plain>>

\* insert: set the root to its new copy.
InsertCommit ==
    /\ pc = "insert_commit"
    /\ \E ok \in SetRootOutcomes :
          IF ok
          THEN /\ walRoot' = fr.root
               /\ setRoots' = setRoots + 1
               /\ Finish("Ok")
               /\ UNCHANGED walFails
          ELSE /\ walFails' = walFails + 1
               /\ Finish("IoError")
               /\ UNCHANGED <<walRoot, setRoots>>
    /\ UNCHANGED <<b, path, pages, nLoad, nFree, start, ow, plain>>

\* ------------------------------------------------------------------ delete

\* A faulty delete that descends from the committed root itself instead of a
\* copy of it: the copy-on-write discipline (C6) rejects it.
BeginDeleteInPlace(k) ==
    /\ pc = "idle"
    /\ Begin
    /\ plain' = FALSE
    /\ LET root == pages[walRoot]
       IN  /\ pages' = pages
           /\ fr' = [IdleFrame EXCEPT !.kind = "delete", !.key = k,
                                      !.root = walRoot,
                                      !.off = walRoot, !.node = root]
    /\ pc' = "delete_subtree"
    /\ UNCHANGED <<b, path, walRoot, walFails, abs, done>>

\* BTree::delete up to its write_page: the copy of the root.
BeginDelete(k) ==
    /\ pc = "idle"
    /\ Begin
    /\ plain' = FALSE
    /\ LET root == pages[walRoot]
       IN  /\ pages' = WritePage(pages, root)
           /\ fr' = [IdleFrame EXCEPT !.kind = "delete", !.key = k,
                                      !.root = Len(pages) + 1,
                                      !.off = Len(pages) + 1, !.node = root]
    /\ pc' = "delete_subtree"
    /\ UNCHANGED <<b, path, walRoot, walFails, abs, done>>

\* delete(Key) of any key of FreeKeys.
StartDelete ==
    /\ nFree < MaxOps
    /\ \E k \in FreeKeys : BeginDelete(k)
    /\ nFree' = nFree + 1
    /\ UNCHANGED nLoad

\* A faulty leaf step that does not report a missing key and goes on to
\* commit the copied path: the failed-delete claim (C9) rejects it.
DeleteLeafIgnoresMiss ==
    /\ pc = "delete_subtree"
    /\ fr.node.leaf
    /\ LET r == BinarySearch(PairKeys(fr.node.pairs), fr.key)
           n == IF r.ok THEN [fr.node EXCEPT !.pairs = RemoveAt(@, r.idx)]
                ELSE fr.node
       IN  /\ pages' = WritePageAtOffset(pages, fr.off, n)
           /\ fr' = [fr EXCEPT !.node = n]
           /\ ow' = ow \cup {fr.off}
           /\ pc' = "borrow"
           /\ UNCHANGED <<abs, done>>
    /\ UNCHANGED <<b, path, walRoot>>
    /\ UNCHANGED envVars
    /\ UNCHANGED <<setRoots, start, plain>>

\* delete_key_from_subtree at a leaf: remove the pair and write the leaf at
\* its offset, or return KeyNotFound.
DeleteLeaf ==
    /\ pc = "delete_subtree"
    /\ fr.node.leaf
    /\ LET r == BinarySearch(PairKeys(fr.node.pairs), fr.key) IN
       IF ~r.ok
       THEN /\ Finish("KeyNotFound")
            /\ UNCHANGED <<pages, ow>>
       ELSE LET n == [fr.node EXCEPT !.pairs = RemoveAt(@, r.idx)] IN
            /\ pages' = WritePageAtOffset(pages, fr.off, n)
            /\ fr' = [fr EXCEPT !.node = n]
            /\ ow' = ow \cup {fr.off}
            /\ pc' = "borrow"
            /\ UNCHANGED <<abs, done>>
    /\ UNCHANGED <<b, path, walRoot>>
    /\ UNCHANGED envVars
    /\ UNCHANGED <<setRoots, start, plain>>

\* delete_key_from_subtree at an internal node: load the child of the key,
\* point it at the copied parent and append it.
DeleteCopyChild ==
    /\ pc = "delete_subtree"
    /\ ~fr.node.leaf
    /\ LET idx == InsertionPoint(fr.node.keys, fr.key) IN
       IF idx >= Len(fr.node.children)
       THEN /\ Finish("UnexpectedError")
            /\ UNCHANGED pages
       ELSE LET child == [pages[fr.node.children[idx + 1]]
                             EXCEPT !.parent = fr.off] IN
            /\ pages' = WritePage(pages, child)
            /\ fr' = [fr EXCEPT !.idx = idx, !.child = child,
                                !.childOff = Len(pages) + 1,
                                !.node.children[idx + 1] = Len(pages) + 1]
            /\ pc' = "delete_write_parent"
            /\ UNCHANGED <<abs, done>>
    /\ UNCHANGED <<b, path, walRoot>>
    /\ UNCHANGED envVars
    /\ UNCHANGED <<setRoots, start, ow, plain>>

\* delete_key_from_subtree at an internal node: write the parent and go on in
\* the child.
DeleteWriteParent ==
    /\ pc = "delete_write_parent"
    /\ pages' = WritePageAtOffset(pages, fr.off, fr.node)
    /\ fr' = [fr EXCEPT !.node = fr.child, !.off = fr.childOff]
    /\ ow' = ow \cup {fr.off}
    /\ pc' = "delete_subtree"
    /\ UNCHANGED <<b, path, walRoot>>
    /\ UNCHANGED envVars
    /\ UNCHANGED <<abs, done, setRoots, start, plain>>

\* borrow_if_needed: the node does not underflow.
BorrowNotNeeded ==
    /\ pc = "borrow"
    /\ ~IsNodeUnderflow(fr.node, b)
    /\ pc' = "delete_commit"
    /\ UNCHANGED <<b, path, pages, walRoot, fr>>
    /\ UNCHANGED envVars
    /\ UNCHANGED histVars

\* idx +- 1 of borrow_if_needed
SiblingIdx(idx) == IF idx > 0 THEN idx - 1 ELSE idx + 1

\* borrow_if_needed, underflow: fetch the parent and the sibling, merge, and
\* append the merged node.
BorrowMerge ==
    /\ pc = "borrow"
    /\ IsNodeUnderflow(fr.node, b)
    /\ IF fr.node.parent = 0 \/ pages[fr.node.parent].leaf
       THEN /\ Finish("UnexpectedError")
            /\ UNCHANGED pages
       ELSE LET parent == pages[fr.node.parent]
                idx    == InsertionPoint(parent.keys, fr.key)
                sidx   == SiblingIdx(idx)
            IN  IF sidx >= Len(parent.children)
                THEN /\ Finish("UnexpectedError")
                     /\ UNCHANGED pages
                ELSE LET sibling == pages[parent.children[sidx + 1]]
                         m       == Merge(fr.node, sibling)
                     IN  IF ~m.ok
                         THEN /\ Finish("UnexpectedError")
                              /\ UNCHANGED pages
                         ELSE /\ pages' = WritePage(pages, m.node)
                              /\ fr' = [fr EXCEPT
                                          !.parent = parent,
                                          !.parentOff = fr.node.parent,
                                          !.idx = idx,
                                          !.sibling = sibling,
                                          !.mergedOff = Len(pages) + 1]
                              /\ pc' = "borrow_parent"
                              /\ UNCHANGED <<abs, done>>
    /\ UNCHANGED <<b, path, walRoot>>
    /\ UNCHANGED envVars
    /\ UNCHANGED <<setRoots, start, ow, plain>>

Min(x, y) == IF x <= y THEN x ELSE y

\* The two children.remove(merged_node_idx) both stay in bounds.
RemovesInBounds(parent, idx) ==
    Min(idx, SiblingIdx(idx)) + 1 < Len(parent.children)

\* borrow_if_needed, after the merge: drop the two old children.  A root left
\* without children is replaced by the merged node in the WAL, and
\* borrow_if_needed returns.  Otherwise drop their separator, put the merged
\* node in their place, write the parent at its offset and go on with the
\* parent.  A Vec::remove out of bounds aborts the process.
BorrowParent ==
    /\ pc = "borrow_parent"
    /\ IF ~RemovesInBounds(fr.parent, fr.idx)
       THEN /\ Finish("Panic")
            /\ UNCHANGED <<pages, walRoot, walFails, setRoots, ow>>
       ELSE IF fr.parent.is_root /\ Len(fr.parent.children) = 2
       THEN /\ \E ok \in SetRootOutcomes :
                  IF ok
                  THEN /\ walRoot' = fr.mergedOff
                       /\ setRoots' = setRoots + 1
                       /\ pc' = "delete_commit"
                       /\ UNCHANGED <<fr, walFails, abs, done>>
                  ELSE /\ walFails' = walFails + 1
                       /\ Finish("IoError")
                       /\ UNCHANGED <<walRoot, setRoots>>
            /\ UNCHANGED <<pages, ow>>
       ELSE IF fr.idx >= Len(fr.parent.keys)
       THEN /\ Finish("Panic")
            /\ UNCHANGED <<pages, walRoot, walFails, setRoots, ow>>
       ELSE LET midx == Min(fr.idx, SiblingIdx(fr.idx))
                p    == [fr.parent EXCEPT
                           !.children = InsertAt(RemoveAt(RemoveAt(@, midx), midx),
                                                 midx, fr.mergedOff),
                           !.keys = RemoveAt(@, fr.idx)]
            IN  /\ pages' = WritePageAtOffset(pages, fr.parentOff, p)
                /\ fr' = [fr EXCEPT !.node = p, !.off = fr.parentOff]
                /\ ow' = ow \cup {fr.parentOff}
                /\ pc' = "borrow"
                /\ UNCHANGED <<walRoot, walFails, setRoots, abs, done>>
    /\ UNCHANGED <<b, path, nLoad, nFree, start, plain>>

\* delete: set the root to its new copy.
DeleteCommit ==
    /\ pc = "delete_commit"
    /\ \E ok \in SetRootOutcomes :
          IF ok
          THEN /\ walRoot' = fr.root
               /\ setRoots' = setRoots + 1
               /\ Finish("Ok")
               /\ UNCHANGED walFails
          ELSE /\ walFails' = walFails + 1
               /\ Finish("IoError")
               /\ UNCHANGED <<walRoot, setRoots>>
    /\ UNCHANGED <<b, path, pages, nLoad, nFree, start, ow, plain>>

\* ------------------------------------------------------------------- build

\* Pager::new opens the tree file create-or-truncate.
PagerNew(file) == <<>>

LastResult == IF Len(done) = 0 THEN "none" ELSE done[Len(done)].result

\* BTreeBuilder::build on the path of the tree, after the process was lost to
\* a failed WAL write or an abort: a new pager, an empty root leaf appended,
\* and the WAL set to it.
Build ==
    /\ pc \in {"idle", "aborted"}
    /\ LastResult \in {"IoError", "Panic"}
    /\ pages' = WritePage(PagerNew(pages), Leaf(<<>>, TRUE, 0))
    /\ walRoot' = Len(PagerNew(pages)) + 1
    /\ pc' = "idle"
    /\ fr' = IdleFrame
    /\ done' = LET d == Append(done, [kind |-> "build", key |-> 0,
                                      value |-> 0, result |-> "Ok"])
               IN  IF Len(d) > 3 THEN Tail(d) ELSE d
    /\ abs' = [k \in Keys |-> 0]
    /\ plain' = TRUE
    /\ start' = [root |-> walRoot', pages |-> pages']
    /\ setRoots' = 1
    /\ ow' = {}
    /\ UNCHANGED <<b, path, nLoad, nFree, walFails>>

\* ---------------------------------------------------------------- readings

\* BTree::search on the current file and WAL root.
Search(k) == SearchNode(pages, walRoot, k)

\* The pairs stored in the leaves under the page at `off`, left to right.
RECURSIVE PairsUnder(_, _)
PairsUnder(file, off) ==
    LET n == file[off]
        RECURSIVE Below(_)
        Below(i) == IF i > Len(n.children) THEN <<>>
                    ELSE PairsUnder(file, n.children[i]) \o Below(i + 1)
    IN  IF n.leaf THEN n.pairs ELSE Below(1)

Range(s) == {s[i] : i \in 1 .. Len(s)}

\* The key-value set of the tree under the page at `off`.
Content(file, off) == Range(PairsUnder(file, off))

\* The offsets of the pages of the tree under the page at `off`.
RECURSIVE Reachable(_, _)
Reachable(file, off) ==
    LET n == file[off]
    IN  {off} \cup IF n.leaf THEN {}
                   ELSE UNION {Reachable(file, n.children[i]) :
                                  i \in 1 .. Len(n.children)}

\* No key is stored twice in the tree under the page at `off`.
DistinctKeys(file, off) ==
    LET ps == PairsUnder(file, off)
    IN  \A i, j \in 1 .. Len(ps) : i # j => ps[i][1] # ps[j][1]

\* The number of node levels from the page at `off` down its first branch.
RECURSIVE Height(_, _)
Height(file, off) ==
    LET n == file[off]
    IN  IF n.leaf \/ Len(n.children) = 0 THEN 1
        ELSE 1 + Height(file, n.children[1])

LastOp == done[Len(done)]

\* An insert or delete has just returned `res`.
Returned(kind, res) ==
    /\ pc = "idle"
    /\ Len(done) > 0
    /\ LastOp.kind = kind
    /\ LastOp.result = res

\* ----------------------------------------------------------- specification

Next ==
    \/ LoadInsert
    \/ StartInsert
    \/ InsertSplitRoot
    \/ InsertSplitRootSibling
    \/ InsertNewRoot
    \/ InsertLeaf
    \/ InsertCopyChild
    \/ InsertSplitChild
    \/ InsertSplitChildSibling
    \/ InsertWriteParentSplit
    \/ InsertWriteParent
    \/ InsertCommit
    \/ StartDelete
    \/ DeleteLeaf
    \/ DeleteCopyChild
    \/ DeleteWriteParent
    \/ BorrowNotNeeded
    \/ BorrowMerge
    \/ BorrowParent
    \/ DeleteCommit
    \/ Build

Spec == Init /\ [][Next]_vars

\* A second workload: b = 3, the whole bulk load, then at most DeepOps
\* operations with keys drawn from DeepKeys, the WAL never failing.
DeepOps == 5
DeepKeys == {0, 2, 3, 5, 6}

InitDeep ==
    /\ b = 3
    /\ path = "/tmp/db"
    /\ pages = <<Leaf(<<>>, TRUE, 0)>>
    /\ walRoot = 1
    /\ pc = "idle"
    /\ fr = IdleFrame
    /\ nLoad = 0 /\ nFree = 0 /\ walFails = MaxWalFail
    /\ abs = [k \in Keys |-> 0]
    /\ done = <<>>
    /\ setRoots = 0
    /\ start = [root |-> 1, pages |-> <<Leaf(<<>>, TRUE, 0)>>]
    /\ ow = {}
    /\ plain = TRUE

StartInsertDeep ==
    /\ nLoad = MaxLoad
    /\ nFree < DeepOps
    /\ \E k \in DeepKeys : BeginInsert(k, NextValue)
    /\ nFree' = nFree + 1
    /\ UNCHANGED nLoad

StartDeleteDeep ==
    /\ nLoad = MaxLoad
    /\ nFree < DeepOps
    /\ \E k \in DeepKeys : BeginDelete(k)
    /\ nFree' = nFree + 1
    /\ UNCHANGED nLoad

NextDeep ==
    \/ LoadInsert
    \/ StartInsertDeep
    \/ InsertSplitRoot
    \/ InsertSplitRootSibling
    \/ InsertNewRoot
    \/ InsertLeaf
    \/ InsertCopyChild
    \/ InsertSplitChild
    \/ InsertSplitChildSibling
    \/ InsertWriteParentSplit
    \/ InsertWriteParent
    \/ InsertCommit
    \/ StartDeleteDeep
    \/ DeleteLeaf
    \/ DeleteCopyChild
    \/ DeleteWriteParent
    \/ BorrowNotNeeded
    \/ BorrowMerge
    \/ BorrowParent
    \/ DeleteCommit

SpecDeep == InitDeep /\ [][NextDeep]_vars

\* ------------------------------------------------------------------ claims

\* The key-value set of the tree committed when the operation began.
Before == Content(start.pages, start.root)

\* The operation in progress, or else the one that returned last.
CurOp ==
    IF fr.kind # "none"
    THEN [kind |-> fr.kind, key |-> fr.key, value |-> fr.value]
    ELSE IF Len(done) > 0
    THEN [kind |-> LastOp.kind, key |-> LastOp.key, value |-> LastOp.value]
    ELSE [kind |-> "none", key |-> 0, value |-> 0]

\* `c` is the key-value set the operation produces once completed.
IsAfter(c) ==
    IF CurOp.kind = "insert"
    THEN c = Before \cup {<<CurOp.key, CurOp.value>>}
    ELSE \E p \in Before : p[1] = CurOp.key /\ c = Before \ {p}

\* C1 (round-trip): between operations, search(k) of every key k inserted
\* and not deleted since returns k with the value of its last insert.
C1_RoundTrip ==
    pc = "idle" =>
        \A k \in Keys : abs[k] > 0 => Search(k) = <<"Ok", k, abs[k]>>

\* C2 (insert-only round-trip): with b = 2, after inserts of pairwise
\* distinct keys and no delete, search(k) returns every inserted key with
\* its value.
C2_InsertOnlyRoundTrip ==
    (pc = "idle" /\ b = 2 /\ plain) =>
        \A k \in Keys : abs[k] > 0 => Search(k) = <<"Ok", k, abs[k]>>

\* C3 (absence): between operations, search(k) of every key k whose delete
\* returned Ok and that was not inserted again returns KeyNotFound.
C3_Absence ==
    pc = "idle" =>
        \A k \in Keys : abs[k] = -1 => Search(k) = <<"KeyNotFound">>

\* C4 (delete removes only its key): when delete(k) has returned Ok on a tree
\* of pairwise distinct keys, every other key that search found before the
\* delete is found after it, with the same value.
C4_DeleteFrame ==
    (Returned("delete", "Ok") /\ DistinctKeys(start.pages, start.root)) =>
        \A k \in Keys \ {LastOp.key} :
            SearchNode(start.pages, start.root, k)[1] = "Ok" =>
                Search(k) = SearchNode(start.pages, start.root, k)

C6_CopyOnWrite ==
    CurOp.kind \in {"insert", "delete"} =>
        /\ \A o \in ow : o > Len(start.pages) /\ o <= Len(pages)
        /\ \A o \in Reachable(start.pages, start.root) :
               pages[o] = start.pages[o]

\* C6 witness: a delete has merged an underflowing node into its sibling and
\* written the parent at its offset.
C6_Witness ==
    /\ pc = "borrow"
    /\ fr.mergedOff > 0
    /\ fr.parentOff \in ow
    /\ Cardinality(ow) >= 3

\* C7 (one set_root): an insert or delete that returned Ok has called
\* set_root exactly once; one that returned an error has not called it.
C7_SetRootOnce ==
    (pc = "idle" /\ Len(done) > 0 /\ LastOp.kind \in {"insert", "delete"}) =>
        setRoots = IF LastOp.result = "Ok" THEN 1 ELSE 0

\* C8 (persistence across reopen): after insert(k1) returned Ok, insert(k2)
\* failed at the WAL write and the tree was reopened through build,
\* search(k1) returns k1's pair and search(k2) returns KeyNotFound.
C8_PersistAcrossReopen ==
    (/\ pc = "idle"
     /\ Len(done) = 3
     /\ done[3].kind = "build"
     /\ done[2].kind = "insert" /\ done[2].result = "IoError"
     /\ done[1].kind = "insert" /\ done[1].result = "Ok"
     /\ done[1].key # done[2].key) =>
        /\ Search(done[1].key) = <<"Ok", done[1].key, done[1].value>>
        /\ Search(done[2].key) = <<"KeyNotFound">>

\* C9 (failed delete is a no-op for readers): delete(k) of a key stored
\* nowhere in the tree returns KeyNotFound, leaves the WAL root offset as it
\* was, leaves the result of search as it was for every key, and changes no
\* page the file held before; it only appends pages.
C9_FailedDeleteNoOp ==
    (/\ pc \in {"idle", "aborted"}
     /\ Len(done) > 0
     /\ LastOp.kind = "delete"
     /\ \A p \in Before : p[1] # LastOp.key) =>
        /\ LastOp.result = "KeyNotFound"
        /\ setRoots = 0
        /\ walRoot = start.root
        /\ \A k \in Keys : Search(k) = SearchNode(start.pages, start.root, k)
        /\ Len(pages) >= Len(start.pages)
        /\ SubSeq(pages, 1, Len(start.pages)) = start.pages

\* C9 witness: a delete of an absent key returned after copying the root and
\* a child of a tree that holds other keys.
C9_Witness ==
    /\ Returned("delete", "KeyNotFound")
    /\ \A p \in Before : p[1] # LastOp.key
    /\ Before # {}
    /\ Len(pages) >= Len(start.pages) + 2

\* The occupancy bounds of a non-root node.
Occupancy(n) ==
    IF n.leaf
    THEN b - 1 <= Len(n.pairs) /\ Len(n.pairs) <= 2 * b
    ELSE b - 1 <= Len(n.keys) /\ Len(n.keys) <= 2 * b - 1

\* C10 (occupancy): between operations, every non-root node of the committed
\* tree has between b-1 and 2b-1 keys (internal) or between b-1 and 2b pairs
\* (leaf).
C10_Occupancy ==
    pc = "idle" =>
        \A o \in Reachable(pages, walRoot) \ {walRoot} : Occupancy(pages[o])

\* The keys stored in the leaves under the page at `off`.
KeysUnder(file, off) == {p[1] : p \in Content(file, off)}

\* Separator i of the internal node at `off` bounds its two neighbours: the
\* keys under child i are <= keys[i], the keys under child i+1 are >= keys[i].
Separated(file, off) ==
    LET n == file[off] IN
    n.leaf \/ \A i \in 1 .. Len(n.keys) :
        /\ i <= Len(n.children) =>
               \A k \in KeysUnder(file, n.children[i]) : k <= n.keys[i]
        /\ i + 1 <= Len(n.children) =>
               \A k \in KeysUnder(file, n.children[i + 1]) : k >= n.keys[i]

\* C11 (separator invariant): after an insert or delete that returned Ok on
\* a tree of pairwise distinct keys, for every internal node of the
\* committed tree and every i, no key under child i is above keys[i] and no
\* key under child i+1 is below keys[i].  The claim asks for more (child i+1
\* strictly above keys[i]), so it implies this property.
C11_SeparatorInvariant ==
    (/\ pc = "idle"
     /\ Len(done) > 0
     /\ LastOp.result = "Ok"
     /\ DistinctKeys(pages, walRoot)) =>
        \A o \in Reachable(pages, walRoot) : Separated(pages, o)

\* The keys of the leaf `n` are strictly increasing.
LeafOrdered(n) ==
    \A i \in 1 .. Len(n.pairs) - 1 : n.pairs[i][1] < n.pairs[i + 1][1]

\* C12 (leaf ordering): after an insert or delete that returned Ok, when no
\* key is stored twice in the committed tree, the keys inside every leaf of
\* the committed tree are strictly increasing.  The claim also excludes
\* duplicates, so it implies this property.
C12_LeafOrdering ==
    (/\ pc = "idle"
     /\ Len(done) > 0
     /\ LastOp.result = "Ok"
     /\ DistinctKeys(pages, walRoot)) =>
        \A o \in Reachable(pages, walRoot) :
            pages[o].leaf => LeafOrdered(pages[o])

\* The tree holds exactly the first n keys of the bulk load, inserted in
\* ascending order into the empty tree, and nothing else has been called.
Loaded(n) == pc = "idle" /\ nLoad = n /\ nFree = 0

\* C13 as claimed (root split timing): with b = 2, after four distinct keys
\* were inserted in ascending order into the empty tree, the tree has height
\* 2 and all four keys are searchable.
C13_RootSplitAfterFour ==
    (b = 2 /\ Loaded(4)) =>
        /\ Height(pages, walRoot) = 2
        /\ \A k \in 1 .. 4 : Search(k) = <<"Ok", k, abs[k]>>

\* C13 as amended: with b = 2, after four distinct keys were inserted in
\* ascending order into the empty tree, the tree is a single root leaf that
\* holds the four pairs, and all four keys are searchable; after the fifth
\* insert the root is an internal node and the tree has height 2.
C13_RootSplitOnFifth ==
    /\ (b = 2 /\ Loaded(4)) =>
           /\ Height(pages, walRoot) = 1
           /\ pages[walRoot].leaf /\ pages[walRoot].is_root
           /\ Len(pages[walRoot].pairs) = 4
           /\ \A k \in 1 .. 4 : Search(k) = <<"Ok", k, abs[k]>>
    /\ (b = 2 /\ Loaded(5)) =>
           /\ Height(pages, walRoot) = 2
           /\ ~pages[walRoot].leaf /\ pages[walRoot].is_root

\* C13 witness: the fifth insert has split the root leaf that held four pairs.
C13_Witness ==
    /\ b = 2
    /\ Loaded(5)
    /\ Len(start.pages[start.root].pairs) = 4
    /\ Height(pages, walRoot) = 2

\* A third workload: b = 2, the first n <= DrainLoad keys of the bulk load,
\* then at most DrainOps deletes of the loaded keys up to DrainKey, in any
\* order, the WAL never failing.
DrainLoad == 10
DrainOps == 5
DrainKey == 5

InitDrain ==
    /\ b = 2
    /\ path = "/tmp/db"
    /\ pages = <<Leaf(<<>>, TRUE, 0)>>
    /\ walRoot = 1
    /\ pc = "idle"
    /\ fr = IdleFrame
    /\ nLoad = 0 /\ nFree = 0 /\ walFails = MaxWalFail
    /\ abs = [k \in Keys |-> 0]
    /\ done = <<>>
    /\ setRoots = 0
    /\ start = [root |-> 1, pages |-> <<Leaf(<<>>, TRUE, 0)>>]
    /\ ow = {}
    /\ plain = TRUE

LoadInsertDrain ==
    /\ nLoad < DrainLoad
    /\ LoadInsert

StartDeleteDrain ==
    /\ nFree < DrainOps
    /\ \E k \in 1 .. Min(nLoad, DrainKey) : BeginDelete(k)
    /\ nFree' = nFree + 1
    /\ UNCHANGED nLoad

NextDrain ==
    \/ LoadInsertDrain
    \/ InsertSplitRoot
    \/ InsertSplitRootSibling
    \/ InsertNewRoot
    \/ InsertLeaf
    \/ InsertCopyChild
    \/ InsertSplitChild
    \/ InsertSplitChildSibling
    \/ InsertWriteParentSplit
    \/ InsertWriteParent
    \/ InsertCommit
    \/ StartDeleteDrain
    \/ DeleteLeaf
    \/ DeleteCopyChild
    \/ DeleteWriteParent
    \/ BorrowNotNeeded
    \/ BorrowMerge
    \/ BorrowParent
    \/ DeleteCommit

SpecDrain == InitDrain /\ [][NextDrain]_vars

\* The last step of a delete-all: a delete of a loaded key that is still in
\* the tree has returned, and every other loaded key was deleted before with
\* result Ok.
LastOfDeleteAll ==
    /\ pc = "idle"
    /\ nLoad > 0
    /\ Len(done) > 0
    /\ LastOp.kind = "delete"
    /\ LastOp.key \in 1 .. nLoad
    /\ \E p \in Before : p[1] = LastOp.key
    /\ \A k \in (1 .. nLoad) \ {LastOp.key} : abs[k] = -1

RECURSIVE CeilLog2From(_, _)
CeilLog2From(n, e) == IF 2 ^ e >= n THEN e ELSE CeilLog2From(n, e + 1)

CeilLog2(n) == CeilLog2From(n, 0)

\* The number of keys inserted so far.
Inserted == Cardinality({k \in Keys : abs[k] > 0})

\* C15 (height bound): with b = 2, after n >= 1 inserts of distinct keys into
\* the empty tree and no delete, the tree has at most ceil(log2(n)) + 1 node
\* levels from the root down to a leaf.
C15_HeightBound ==
    (b = 2 /\ pc = "idle" /\ plain /\ Inserted >= 1) =>
        Height(pages, walRoot) <= CeilLog2(Inserted) + 1

\* C15 witness: inserts alone have grown the tree to three levels.
C15_Witness ==
    /\ b = 2
    /\ pc = "idle"
    /\ plain
    /\ Inserted >= 1
    /\ Height(pages, walRoot) = 3

\* ----------------------------------------------------------------- builder

\* pub const MAX_BRANCHING_FACTOR
MAX_BRANCHING_FACTOR == 154

\* b_parameter(200) of BTreeBuilder::default
DefaultB == 200

\* A fourth workload: a BTreeBuilder configured with a path that is empty (as
\* BTreeBuilder::new leaves it) or not, and with a b parameter of
\* 0 .. MaxBuilderB or the default one, on which build is called once.
MaxBuilderB == 80
BuilderBs == (0 .. MaxBuilderB) \cup {DefaultB}
BuilderPaths == {"", "/tmp/db"}

InitBuilder ==
    /\ b \in BuilderBs
    /\ path \in BuilderPaths
    /\ pages = <<>>
    /\ walRoot = 0
    /\ pc = "builder"
    /\ fr = IdleFrame
    /\ nLoad = 0 /\ nFree = 0 /\ walFails = MaxWalFail
    /\ abs = [k \in Keys |-> 0]
    /\ done = <<>>
    /\ setRoots = 0
    /\ start = [root |-> 0, pages |-> <<>>]
    /\ ow = {}
    /\ plain = TRUE

\* BTreeBuilder::build: UnexpectedError for an empty path or b = 0, else the
\* BTree over a file that holds one empty root leaf.
BuilderBuild ==
    /\ pc = "builder"
    /\ IF path = "" \/ b = 0
       THEN /\ pc' = "build_error"
            /\ done' = <<[kind |-> "build", key |-> 0, value |-> 0,
                          result |-> "UnexpectedError"]>>
            /\ UNCHANGED <<pages, walRoot, setRoots, start>>
       ELSE /\ pages' = WritePage(PagerNew(pages), Leaf(<<>>, TRUE, 0))
            /\ walRoot' = Len(PagerNew(pages)) + 1
            /\ pc' = "idle"
            /\ done' = <<[kind |-> "build", key |-> 0, value |-> 0,
                          result |-> "Ok"]>>
            /\ setRoots' = 1
            /\ start' = [root |-> walRoot', pages |-> pages']
    /\ UNCHANGED <<b, path, fr, nLoad, nFree, walFails, abs, ow, plain>>

NextBuilder == BuilderBuild

SpecBuilder == InitBuilder /\ [][NextBuilder]_vars

\* C16 (configuration bound): every BTree that build returned has a non-empty
\* path and a b parameter with b >= 1 and 2b-1 <= MAX_BRANCHING_FACTOR, and
\* build returned an error for every other configuration.
C16_ConfigurationBound ==
    pc \in {"idle", "build_error"} =>
        (pc = "idle" <=>
            (path # "" /\ b >= 1 /\ 2 * b - 1 <= MAX_BRANCHING_FACTOR))

\* C17 (delete of a present key completes): with b = 2, on a tree of
\* pairwise distinct keys, delete(k) of a key that search finds returns Ok:
\* it neither aborts on an out-of-bounds removal nor returns
\* UnexpectedError.
C17_DeleteCompletes ==
    (/\ b = 2
     /\ pc \in {"idle", "aborted"}
     /\ Len(done) > 0
     /\ LastOp.kind = "delete"
     /\ DistinctKeys(start.pages, start.root)
     /\ SearchNode(start.pages, start.root, LastOp.key)[1] = "Ok") =>
        LastOp.result = "Ok"

\* C18 (internal node shape): after an insert or delete that returned Ok,
\* every internal node reachable from the committed root has exactly one
\* more child offset than keys.
C18_InternalShape ==
    (pc = "idle" /\ Len(done) > 0 /\ LastOp.result = "Ok") =>
        \A o \in Reachable(pages, walRoot) :
            ~pages[o].leaf =>
                Len(pages[o].children) = Len(pages[o].keys) + 1

\* A delete has returned Ok after merging the two only children of the root:
\* borrow_if_needed has set the root to the merged node, which is the page
\* the delete appended last, before the set_root of delete itself.
CollapsedRoot ==
    /\ Returned("delete", "Ok")
    /\ setRoots = 2
    /\ ~start.pages[start.root].leaf
    /\ Len(start.pages[start.root].children) = 2

\* C19 (root collapse): when a delete has merged the two only children of
\* the root, then once it has returned the root offset stored in the WAL is
\* the offset of the merged node and the tree is one level lower than before
\* the delete.
C19_RootCollapse ==
    CollapsedRoot =>
        /\ walRoot = Len(pages)
        /\ Height(pages, walRoot) = Height(start.pages, start.root) - 1

\* borrow_if_needed is about to call merge: the node underflows, its parent
\* is an internal node and has a child slot at sibling_idx.
MergeCalled ==
    /\ pc = "borrow"
    /\ IsNodeUnderflow(fr.node, b)
    /\ fr.node.parent # 0
    /\ ~pages[fr.node.parent].leaf
    /\ SiblingIdx(InsertionPoint(pages[fr.node.parent].keys, fr.key))
           < Len(pages[fr.node.parent].children)

\* The sibling that borrow_if_needed hands to merge as second node.
MergeSibling ==
    LET parent == pages[fr.node.parent]
        sidx   == SiblingIdx(InsertionPoint(parent.keys, fr.key))
    IN  pages[parent.children[sidx + 1]]

\* C20 (merge precondition): whenever borrow_if_needed calls merge, the two
\* nodes are both leaves or both internal, and together they hold at most 2b
\* pairs (leaves) or at most 2b-1 keys and 2b child offsets (internal).
C20_MergePrecondition ==
    MergeCalled =>
        /\ fr.node.leaf = MergeSibling.leaf
        /\ IF fr.node.leaf
           THEN Len(fr.node.pairs) + Len(MergeSibling.pairs) <= 2 * b
           ELSE /\ Len(fr.node.keys) + Len(MergeSibling.keys) <= 2 * b - 1
                /\ Len(fr.node.children) + Len(MergeSibling.children)
                       <= 2 * b

\* The node holds no more than a node may hold: at most 2b pairs in a leaf,
\* at most 2b-1 keys in an internal node.
WithinCapacity(n) ==
    IF n.leaf THEN Len(n.pairs) <= 2 * b ELSE Len(n.keys) <= 2 * b - 1

\* C21 (split before descent): at every call of insert_non_full the node
\* passed in is not full (a leaf has fewer than 2b pairs, an internal node
\* fewer than 2b-1 keys) and is the page at an offset that write_page
\* returned earlier in the same insert; and no page an insert has written
\* holds more than 2b pairs or more than 2b-1 keys.
C21_SplitBeforeDescent ==
    /\ pc = "insert_non_full" =>
           /\ IF fr.node.leaf THEN Len(fr.node.pairs) < 2 * b
                              ELSE Len(fr.node.keys) < 2 * b - 1
           /\ fr.off > Len(start.pages)
           /\ fr.off <= Len(pages)
           /\ pages[fr.off] = fr.node
    /\ fr.kind = "insert" =>
           \A o \in (Len(start.pages) + 1) .. Len(pages) :
               WithinCapacity(pages[o])

\* A fifth workload: b = 3, the first n <= MixedLoad keys of the bulk load,
\* then at most MixedOps inserts and deletes with keys of 0 .. MixedKey;
\* Wal::set_root may fail as in Spec, and the caller goes on using the BTree
\* after an error.
MixedLoad == 10
MixedOps == 3
MixedKey == 2
MixedKeys == 0 .. MixedKey

InitMixed ==
    /\ b = 3
    /\ path = "/tmp/db"
    /\ pages = <<Leaf(<<>>, TRUE, 0)>>
    /\ walRoot = 1
    /\ pc = "idle"
    /\ fr = IdleFrame
    /\ nLoad = 0 /\ nFree = 0 /\ walFails = 0
    /\ abs = [k \in Keys |-> 0]
    /\ done = <<>>
    /\ setRoots = 0
    /\ start = [root |-> 1, pages |-> <<Leaf(<<>>, TRUE, 0)>>]
    /\ ow = {}
    /\ plain = TRUE

LoadInsertMixed ==
    /\ nLoad < MixedLoad
    /\ LoadInsert

StartInsertMixed ==
    /\ nFree < MixedOps
    /\ \E k \in MixedKeys : BeginInsert(k, NextValue)
    /\ nFree' = nFree + 1
    /\ UNCHANGED nLoad

StartDeleteMixed ==
    /\ nFree < MixedOps
    /\ \E k \in MixedKeys : BeginDelete(k)
    /\ nFree' = nFree + 1
    /\ UNCHANGED nLoad

NextMixed ==
    \/ LoadInsertMixed
    \/ StartInsertMixed
    \/ InsertSplitRoot
    \/ InsertSplitRootSibling
    \/ InsertNewRoot
    \/ InsertLeaf
    \/ InsertCopyChild
    \/ InsertSplitChild
    \/ InsertSplitChildSibling
    \/ InsertWriteParentSplit
    \/ InsertWriteParent
    \/ InsertCommit
    \/ StartDeleteMixed
    \/ DeleteLeaf
    \/ DeleteCopyChild
    \/ DeleteWriteParent
    \/ BorrowNotNeeded
    \/ BorrowMerge
    \/ BorrowParent
    \/ DeleteCommit

SpecMixed == InitMixed /\ [][NextMixed]_vars

\* The depths at which the leaves under the page at `off` lie, the page at
\* `off` being at depth d.
RECURSIVE LeafDepths(_, _, _)
LeafDepths(file, off, d) ==
    LET n == file[off]
    IN  IF n.leaf THEN {d}
        ELSE UNION {LeafDepths(file, n.children[i], d + 1) :
                       i \in 1 .. Len(n.children)}

\* C22 (balance): after any insert or delete has returned, with Ok or with an
\* error, every leaf reachable from the committed root is at the same depth,
\* and the reachable nodes that hold key-value pairs are leaves.
C22_Balance ==
    (pc = "idle" /\ Len(done) > 0 /\ LastOp.kind \in {"insert", "delete"}) =>
        /\ Cardinality(LeafDepths(pages, walRoot, 1)) = 1
        /\ \A o \in Reachable(pages, walRoot) :
               Len(pages[o].pairs) > 0 => pages[o].leaf

\* C22 witness: a delete has returned Ok on a tree of three levels after
\* copying the path to a leaf and appending a merged node, and the leaves of
\* the committed tree are all at depth 3.
C22_Witness ==
    /\ Returned("delete", "Ok")
    /\ Height(start.pages, start.root) = 3
    /\ Len(pages) >= Len(start.pages) + 4
    /\ LeafDepths(pages, walRoot, 1) = {3}

\* A sixth workload: b = 2, the first n <= SearchLoad keys of the bulk load,
\* and between the inserts searches of the keys 0 .. SearchKey, at most
\* MaxSearchRun in a row; the WAL never fails.
SearchLoad == 7
SearchKey == 3
MaxSearchRun == 2
SearchKeys == 0 .. SearchKey

InitSearch ==
    /\ b = 2
    /\ path = "/tmp/db"
    /\ pages = <<Leaf(<<>>, TRUE, 0)>>
    /\ walRoot = 1
    /\ pc = "idle"
    /\ fr = IdleFrame
    /\ nLoad = 0 /\ nFree = 0 /\ walFails = MaxWalFail
    /\ abs = [k \in Keys |-> 0]
    /\ done = <<>>
    /\ setRoots = 0
    /\ start = [root |-> 1, pages |-> <<Leaf(<<>>, TRUE, 0)>>]
    /\ ow = {}
    /\ plain = TRUE

LoadInsertSearch ==
    /\ nLoad < SearchLoad
    /\ LoadInsert

\* The number of searches that returned since the last insert.
SearchRun ==
    Cardinality({i \in 1 .. Len(done) :
                    \A j \in i .. Len(done) : done[j].kind = "search"})

\* A faulty search that shadows the root as insert and delete do, appending a
\* copy of it before it descends: the read-only claim (C23) rejects it.
StartSearchShadowsRoot ==
    /\ pc = "idle"
    /\ SearchRun < MaxSearchRun
    /\ Begin
    /\ \E k \in SearchKeys :
          LET r == SearchNode(pages, walRoot, k)
              d == Append(done, [kind |-> "search", key |-> k,
                                 value |-> IF r[1] = "Ok" THEN r[3] ELSE 0,
                                 result |-> r[1]])
          IN  done' = IF Len(d) > 3 THEN Tail(d) ELSE d
    /\ pages' = WritePage(pages, pages[walRoot])
    /\ UNCHANGED <<b, path, walRoot, pc, fr>>
    /\ UNCHANGED envVars
    /\ UNCHANGED <<abs, plain>>

\* BTree::search of any key of SearchKeys: get_root, get_page down the path
\* of the key, and the result handed to the caller.
StartSearch ==
    /\ pc = "idle"
    /\ SearchRun < MaxSearchRun
    /\ Begin
    /\ \E k \in SearchKeys :
          LET r == SearchNode(pages, walRoot, k)
              d == Append(done, [kind |-> "search", key |-> k,
                                 value |-> IF r[1] = "Ok" THEN r[3] ELSE 0,
                                 result |-> r[1]])
          IN  done' = IF Len(d) > 3 THEN Tail(d) ELSE d
    /\ UNCHANGED <<b, path, pages, walRoot, pc, fr>>
    /\ UNCHANGED envVars
    /\ UNCHANGED <<abs, plain>>

NextSearch ==
    \/ LoadInsertSearch
    \/ InsertSplitRoot
    \/ InsertSplitRootSibling
    \/ InsertNewRoot
    \/ InsertLeaf
    \/ InsertCopyChild
    \/ InsertSplitChild
    \/ InsertSplitChildSibling
    \/ InsertWriteParentSplit
    \/ InsertWriteParent
    \/ InsertCommit
    \/ StartSearch

SpecSearch == InitSearch /\ [][NextSearch]_vars

RootFlagged(file, off) ==
    /\ file[off].is_root
    /\ \A o \in Reachable(file, off) \ {off} : ~file[o].is_root

\* C24 (root flag): after build and after any insert or delete that has
\* returned Ok, the node at the root offset stored in the WAL has
\* is_root = true and every other node reachable from it has is_root = false.
C24_RootFlag ==
    (pc = "idle" /\ (Len(done) > 0 => LastOp.result = "Ok")) =>
        RootFlagged(pages, walRoot)

====
